---- MODULE Spec2Model ----
(***************************************************************************)
(* Session lifecycle of the PHOEBE server (phoebe_server.manager.          *)
(* session_manager, phoebe_server.api.session, phoebe_server.database).    *)
(*                                                                         *)
(* Every HTTP handler is an `async def` that calls the synchronous         *)
(* session_manager functions without awaiting, and the periodic cleanup    *)
(* task runs on the same event loop, so one handler (or one cleanup tick)  *)
(* runs to completion before the next starts: one action per handler.      *)
(*                                                                         *)
(* Of a registry entry the fields process, port and last_activity are      *)
(* kept, of a sessions row status, destroyed_at and termination_reason,    *)
(* of a session_commands row session_id, timestamp and command_name. The   *)
(* program writes the store and never reads it. The column                 *)
(* sessions.created_at and the rows of session_commands are kept in the    *)
(* specifications that say so in their initial state (kept); in the others *)
(* the column is NULL and the table is not followed. Of the tables         *)
(* session_metrics and session_user_info, and of the updates of            *)
(* sessions.last_activity, the statements of the handler that ran last are *)
(* kept (last.log), not the whole tables.                                  *)
(***************************************************************************)
EXTENDS Integers, Sequences, FiniteSets, TLC

\* The configuration (phoebe_server.config is not among the sources, so the
\* values are chosen here): config.port_pool.start, the number of ports
\* config.port_pool.end - config.port_pool.start, and
\* config.session.idle_timeout_seconds.
PortStart == 1
PoolSize == 2
PortEnd == PortStart + PoolSize
IdleTimeout == 1
\* The number of worker processes spawned in one run (each gets a fresh uuid4),
\* and the last value of the wall clock.
MaxSessions == 2
MaxTime == 2

Ports == PortStart..(PortEnd - 1)
SessionIds == 1..MaxSessions
Times == 0..MaxTime

\* SQL NULL in a REAL column / in a TEXT column
NoTime == -1
NoReason == "NULL"

\* Strings are sequences of characters; the configured lists are strings of
\* at most MaxLen characters.
MaxLen == 3
Chars == {"a", ",", " "}

RECURSIVE StringsOf(_)
StringsOf(n) ==
    IF n = 0 THEN {<<>>}
    ELSE LET shorter == StringsOf(n - 1)
         IN  shorter \cup {Append(str, c) : str \in shorter, c \in Chars}

Strings == StringsOf(MaxLen)

\* The command names the clients send, and the most rows session_commands
\* gets in one run.
CommandNames == {<<"a">>, <<"b">>}
MaxCommands == 2

\* The time the clock reaches in the runs of the whole broker with /send
MaxSendTime == 1

\* The command filter of the runs that do not vary it: no include list, "a"
\* excluded.
DefaultConfig ==
    [log_include_commands |-> <<>>, log_exclude_commands |-> <<"a">>]

VARIABLES
    server_registry,   \* session_manager.server_registry: sid -> entry
    available_ports,   \* session_manager.available_ports: list
    reserved_ports,    \* session_manager.reserved_ports: set
    worker,            \* the OS process of each session id: none/running/exited
    sessions,          \* the rows of table sessions: sid -> row
    now,               \* time.time()
    next_uuid,         \* the next fresh uuid4
    last,              \* the handler that ran last, its arguments and its result
    session_commands,  \* the rows of table session_commands, in insertion order
    received,          \* per session, the last of created/destroyed the store was sent
    rpcs,              \* the /send handlers that wait in send_command()
    queue,             \* the /send requests received while the event loop is busy
    config,            \* config.database.log_include_commands, log_exclude_commands
    kept,              \* the write-only column and table the run follows
    lifespan,          \* main.lifespan: serving, cancelling (awaits the reaper), stopped
    reaper,            \* the periodic_cleanup task: sleeping or done
    ending,            \* the call of shutdown_server that is followed statement by statement
    loop               \* PhoebeWorker.run of one worker: its position and what it served

vars == <<server_registry, available_ports, reserved_ports, worker, sessions,
          now, next_uuid, last, session_commands, received, rpcs, queue, config,
          kept, lifespan, reaper, ending, loop>>

Range(s) == {s[i] : i \in 1..Len(s)}

\* The module globals and the tables as one value that the functions transform.
\* ret is the value the call returned and exc the exception it raised ("" when
\* it returned); ended collects <<session, reason, port>> of every call of
\* shutdown_server that returned True; log collects the statements sent to the
\* store, in order; fail is the set of sessions whose activity, metric,
\* command and user_info statements raise during the call; raises is the set
\* of sessions whose process cannot be terminated: psutil raises an error
\* other than NoSuchProcess (AccessDenied) in shutdown_server.
World ==
    [reg |-> server_registry, avail |-> available_ports, res |-> reserved_ports,
     proc |-> worker, db |-> sessions, ended |-> {}, ret |-> 0, exc |-> "",
     cmds |-> session_commands, log |-> <<>>, fail |-> {}, raises |-> {},
     cols |-> kept, cfg |-> config]

WorldF(F) == [World EXCEPT !.fail = F]

WorldR(R) == [World EXCEPT !.raises = R]

\* Keys of a dict in iteration order. Entries are inserted in creation order
\* and uuids are handed out in increasing order, so that is ascending order.
RECURSIVE keys(_)
keys(D) ==
    IF D = {} THEN <<>>
    ELSE LET m == CHOOSE x \in D : \A y \in D : x <= y
         IN  <<m>> \o keys(D \ {m})

(***************************************************************************)
(* database.py: the sessions table, of which the columns status,           *)
(* destroyed_at and termination_reason are kept. ok is whether the         *)
(* statement and its commit succeed; every function swallows the exception *)
(* otherwise.                                                              *)
(***************************************************************************)

\* One statement sent to the store: which function, for which session, with
\* which timestamp, and whether it succeeded.
Stmt(kind, session_id, timestamp, ok) ==
    [kind |-> kind, session_id |-> session_id, timestamp |-> timestamp, ok |-> ok]

Sent(S, kind, session_id, timestamp, ok) ==
    [S EXCEPT !.log = Append(@, Stmt(kind, session_id, timestamp, ok))]

\* INSERT INTO sessions ...: a second row with the same primary key is
\* refused by sqlite, and that exception is swallowed as well.
log_session_created(S, session_id, created_at, port, ok) ==
    LET S1 == Sent(S, "created", session_id, created_at, ok)
    IN  IF ok /\ session_id \notin DOMAIN S.db
        THEN [S1 EXCEPT !.db =
                [k \in DOMAIN S.db \cup {session_id} |->
                    IF k = session_id
                    THEN [created_at |-> IF "created_at" \in S.cols
                                         THEN created_at ELSE NoTime,
                          destroyed_at |-> NoTime,
                          termination_reason |-> NoReason, status |-> "active"]
                    ELSE S.db[k]]]
        ELSE S1

\* (mutant) the destroyed_at column is left out of the UPDATE
log_session_destroyed_NoTimestamp(S, session_id, destroyed_at, termination_reason, ok) ==
    LET S1 == Sent(S, "destroyed", session_id, destroyed_at, ok)
    IN  IF ok /\ session_id \in DOMAIN S.db
        THEN [S1 EXCEPT !.db[session_id] =
                [@ EXCEPT !.termination_reason = termination_reason,
                          !.status = "terminated"]]
        ELSE S1

\* UPDATE sessions SET destroyed_at, termination_reason, status WHERE session_id
log_session_destroyed(S, session_id, destroyed_at, termination_reason, ok) ==
    LET S1 == Sent(S, "destroyed", session_id, destroyed_at, ok)
    IN  IF ok /\ session_id \in DOMAIN S.db
        THEN [S1 EXCEPT !.db[session_id] =
                [@ EXCEPT !.destroyed_at = destroyed_at,
                          !.termination_reason = termination_reason,
                          !.status = "terminated"]]
        ELSE S1

\* UPDATE sessions SET last_activity WHERE session_id (the column is not kept)
log_session_activity(S, session_id, last_activity) ==
    Sent(S, "activity", session_id, last_activity, session_id \notin S.fail)

\* INSERT INTO session_metrics
log_session_metric(S, session_id, timestamp) ==
    Sent(S, "metric", session_id, timestamp, session_id \notin S.fail)

\* INSERT OR REPLACE INTO session_user_info
log_user_info_update(S, session_id, updated_at) ==
    Sent(S, "user_info", session_id, updated_at, session_id \notin S.fail)

\* str.split(","): the pieces between the commas, "" included
RECURSIVE split(_)
split(str) ==
    IF \A i \in 1..Len(str) : str[i] # ","
    THEN <<str>>
    ELSE LET i == CHOOSE k \in 1..Len(str) :
                      str[k] = "," /\ \A j \in 1..(k - 1) : str[j] # ","
         IN  <<SubSeq(str, 1, i - 1)>> \o split(SubSeq(str, i + 1, Len(str)))

\* str.strip(): without the blanks at either end
RECURSIVE strip(_)
strip(str) ==
    IF str = <<>> THEN str
    ELSE IF Head(str) = " " THEN strip(Tail(str))
    ELSE IF str[Len(str)] = " " THEN strip(SubSeq(str, 1, Len(str) - 1))
    ELSE str

\* [c.strip() for c in text.split(",") if c.strip()]
RECURSIVE stripped(_)
stripped(pieces) ==
    IF pieces = <<>> THEN <<>>
    ELSE IF strip(Head(pieces)) = <<>> THEN stripped(Tail(pieces))
    ELSE <<strip(Head(pieces))>> \o stripped(Tail(pieces))

\* (mutant) the exclude list is looked at first
should_log_command_ExcludeFirst(cfg, command_name) ==
    LET exclude == stripped(split(cfg.log_exclude_commands))
        include == stripped(split(cfg.log_include_commands))
    IN  IF exclude # <<>>
        THEN command_name \notin Range(exclude)
        ELSE include = <<>> \/ command_name \in Range(include)

should_log_command(cfg, command_name) ==
    LET exclude == stripped(split(cfg.log_exclude_commands))
        include == stripped(split(cfg.log_include_commands))
    IN  IF include # <<>>
        THEN command_name \in Range(include)
        ELSE command_name \notin Range(exclude)

\* INSERT INTO session_commands, unless the filter drops the command
log_command_execution(S, session_id, timestamp, command_name) ==
    IF ~should_log_command(S.cfg, command_name)
    THEN S
    ELSE LET S1 == Sent(S, "command", session_id, timestamp,
                        session_id \notin S.fail)
         IN  IF session_id \notin S.fail /\ "session_commands" \in S.cols
             THEN [S1 EXCEPT !.cmds =
                     Append(@, [session_id |-> session_id,
                                timestamp |-> timestamp,
                                command_name |-> command_name])]
             ELSE S1

(***************************************************************************)
(* session_manager.py: the port pool.                                      *)
(***************************************************************************)

\* (mutant) the port is handed out but stays in the available list
request_port_NoPop(S) ==
    IF S.avail = <<>>
    THEN [S EXCEPT !.exc = "RuntimeError"]
    ELSE [S EXCEPT !.res = @ \cup {Head(S.avail)},
                   !.ret = Head(S.avail)]

request_port(S) ==
    IF S.avail = <<>>
    THEN [S EXCEPT !.exc = "RuntimeError"]
    ELSE [S EXCEPT !.avail = Tail(@),
                   !.res = @ \cup {Head(S.avail)},
                   !.ret = Head(S.avail)]

\* (mutant) the released port goes to the front of the list
release_port_Front(S, port) ==
    IF port \in S.res
    THEN [S EXCEPT !.res = @ \ {port}, !.avail = <<port>> \o @]
    ELSE S

\* (mutant) no check that the port is reserved
release_port_NoCheck(S, port) ==
    [S EXCEPT !.res = @ \ {port}, !.avail = Append(@, port)]

release_port(S, port) ==
    IF port \in S.res
    THEN [S EXCEPT !.res = @ \ {port}, !.avail = Append(@, port)]
    ELSE S

get_port_status(S) ==
    [total_ports |-> Len(S.avail) + Cardinality(S.res),
     reserved_ports |-> Cardinality(S.res),
     available_ports |-> Len(S.avail),
     reserved_port_list |-> keys(S.res),
     port_range |-> <<PortStart, PortEnd - 1>>]

(***************************************************************************)
(* session_manager.py: the session registry.                               *)
(***************************************************************************)

\* proc.terminate(); proc.wait(timeout=3); on TimeoutExpired proc.kill():
\* whatever the state of the process, it is not running afterwards.
\* (mutant) the process is left running
terminate_NoKill(S, pid) == S

terminate(S, pid) ==
    [S EXCEPT !.proc[pid] = IF @ = "running" THEN "exited" ELSE @]

\* The entry launch_phoebe_worker stores (the fields the claims read)
Entry(session_id, current_time, port) ==
    [process |-> session_id, last_activity |-> current_time, port |-> port]

Register(S, session_id, entry) ==
    [S EXCEPT !.reg = [k \in DOMAIN S.reg \cup {session_id} |->
                          IF k = session_id THEN entry ELSE S.reg[k]]]

\* (mutant) a create that fails keeps its port reserved
launch_try_KeepPort(S, session_id, port, current_time, outcome, ok) ==
    CASE outcome = "SpawnError" -> [S EXCEPT !.exc = "Exception"]
      [] outcome = "NotReady" ->
            LET S2 == [S EXCEPT !.proc[session_id] = "running"]
            IN  [terminate(S2, session_id) EXCEPT !.exc = "RuntimeError"]
      [] OTHER ->
            LET S2 == [S EXCEPT !.proc[session_id] = "running"]
                S3 == Register(S2, session_id, Entry(session_id, current_time, port))
            IN  [log_session_created(S3, session_id, current_time, port, ok)
                    EXCEPT !.ret = session_id]

\* (mutant) the entry and the created row are written before the readiness
\* probe, and stay when it fails
launch_try_RegisterFirst(S, session_id, port, current_time, outcome, ok) ==
    CASE outcome = "SpawnError" ->
            [release_port(S, port) EXCEPT !.exc = "Exception"]
      [] outcome = "NotReady" ->
            LET S2 == [S EXCEPT !.proc[session_id] = "running"]
                S3 == Register(S2, session_id, Entry(session_id, current_time, port))
                S4 == log_session_created(S3, session_id, current_time, port, ok)
                S5 == release_port(terminate(S4, session_id), port)
            IN  [release_port(S5, port) EXCEPT !.exc = "RuntimeError"]
      [] OTHER ->
            LET S2 == [S EXCEPT !.proc[session_id] = "running"]
                S3 == Register(S2, session_id, Entry(session_id, current_time, port))
            IN  [log_session_created(S3, session_id, current_time, port, ok)
                    EXCEPT !.ret = session_id]

\* The try block of launch_phoebe_worker, entered with the port reserved.
\* outcome: psutil.Popen raises ("SpawnError"), the worker does not answer the
\* ping within the timeout ("NotReady"), or it does ("Ready").
launch_try(S, session_id, port, current_time, outcome, ok) ==
    CASE outcome = "SpawnError" ->
            \* except: release_port(port); raise
            [release_port(S, port) EXCEPT !.exc = "Exception"]
      [] outcome = "NotReady" ->
            \* terminate, release_port, raise; except: release_port again, raise
            LET S2 == [S EXCEPT !.proc[session_id] = "running"]
                S3 == release_port(terminate(S2, session_id), port)
            IN  [release_port(S3, port) EXCEPT !.exc = "RuntimeError"]
      [] OTHER ->
            LET S2 == [S EXCEPT !.proc[session_id] = "running"]
                S3 == Register(S2, session_id, Entry(session_id, current_time, port))
            IN  [log_session_created(S3, session_id, current_time, port, ok)
                    EXCEPT !.ret = session_id]

\* (mutant) request_port() moved into the try block: when it raises, the
\* handler's release_port(port) finds port unbound
launch_phoebe_worker_PortInTry(S, session_id, current_time, outcome, ok) ==
    LET S1 == request_port(S)
    IN  IF S1.exc # "" THEN [S1 EXCEPT !.exc = "UnboundLocalError"]
        ELSE launch_try(S1, session_id, S1.ret, current_time, outcome, ok)

\* request_port() raises before the try block is entered
launch_phoebe_worker(S, session_id, current_time, outcome, ok) ==
    LET S1 == request_port(S)
    IN  IF S1.exc # "" THEN S1
        ELSE launch_try(S1, session_id, S1.ret, current_time, outcome, ok)

\* (mutant) the registry is updated only when the store took the update
update_last_activity_StoreFirst(S, session_id, current_time) ==
    IF session_id \in DOMAIN S.reg
    THEN LET S1 == log_session_activity(S, session_id, current_time)
         IN  IF session_id \in S.fail THEN S1
             ELSE [S1 EXCEPT !.reg[session_id].last_activity = current_time]
    ELSE S

update_last_activity(S, session_id, current_time) ==
    IF session_id \in DOMAIN S.reg
    THEN log_session_activity(
            [S EXCEPT !.reg[session_id].last_activity = current_time],
            session_id, current_time)
    ELSE S

\* proc.memory_info() raises NoSuchProcess for a process that has exited
get_current_memory_usage(S, session_id, current_time) ==
    IF session_id \in DOMAIN S.reg
       /\ S.proc[S.reg[session_id].process] = "running"
    THEN [log_session_metric(update_last_activity(S, session_id, current_time),
                             session_id, current_time) EXCEPT !.ret = TRUE]
    ELSE [S EXCEPT !.ret = FALSE]

\* (mutant) the entry is removed without a word to the store
shutdown_server_NoLog(S, session_id, termination_reason, t, ok) ==
    IF session_id \notin DOMAIN S.reg
    THEN [S EXCEPT !.ret = FALSE]
    ELSE LET info == S.reg[session_id]
             S1 == terminate(S, info.process)
             S2 == IF info.port # 0 THEN release_port(S1, info.port) ELSE S1
         IN  [S2 EXCEPT !.reg = [k \in DOMAIN S.reg \ {session_id} |-> S.reg[k]],
                        !.ended = @ \cup {<<session_id, termination_reason, info.port>>},
                        !.ret = TRUE]

\* (mutant) the entry is not removed from the registry
shutdown_server_KeepEntry(S, session_id, termination_reason, t, ok) ==
    IF session_id \notin DOMAIN S.reg
    THEN [S EXCEPT !.ret = FALSE]
    ELSE LET info == S.reg[session_id]
             S1 == terminate(S, info.process)
             S2 == IF info.port # 0 THEN release_port(S1, info.port) ELSE S1
             S3 == log_session_destroyed(S2, session_id, t, termination_reason, ok)
         IN  [S3 EXCEPT !.ended = @ \cup {<<session_id, termination_reason, info.port>>},
                        !.ret = TRUE]

\* (mutant) the destroyed update is written before the registry is looked up
shutdown_server_LogFirst(S, session_id, termination_reason, t, ok) ==
    LET S0 == log_session_destroyed(S, session_id, t, termination_reason, ok)
    IN  IF session_id \notin DOMAIN S.reg
        THEN [S0 EXCEPT !.ret = FALSE]
        ELSE LET info == S.reg[session_id]
                 S1 == terminate(S0, info.process)
                 S2 == IF info.port # 0 THEN release_port(S1, info.port) ELSE S1
             IN  [S2 EXCEPT !.reg = [k \in DOMAIN S.reg \ {session_id} |-> S.reg[k]],
                            !.ended = @ \cup {<<session_id, termination_reason, info.port>>},
                            !.ret = TRUE]

shutdown_server(S, session_id, termination_reason, t, ok) ==
    IF session_id \notin DOMAIN S.reg
    THEN [S EXCEPT !.ret = FALSE]
    ELSE IF session_id \in S.raises
            /\ S.proc[S.reg[session_id].process] = "running"
    THEN [S EXCEPT !.exc = "psutil.Error"]
    ELSE LET info == S.reg[session_id]
             S1 == terminate(S, info.process)
             S2 == IF info.port # 0 THEN release_port(S1, info.port) ELSE S1
             S3 == log_session_destroyed(S2, session_id, t, termination_reason, ok)
         IN  [S3 EXCEPT !.reg = [k \in DOMAIN S.reg \ {session_id} |-> S.reg[k]],
                        !.ended = @ \cup {<<session_id, termination_reason, info.port>>},
                        !.ret = TRUE]

\* for session_id in ids: shutdown_server(session_id, reason); the destroyed
\* write fails for the sessions in F; an exception ends the loop. (S1 is bound
\* by a set so that it is evaluated once.)
RECURSIVE shutdown_each(_, _, _, _, _)
shutdown_each(S, ids, reason, t, F) ==
    IF ids = <<>> \/ S.exc # "" THEN S
    ELSE CHOOSE R \in
            {shutdown_each(S1, Tail(ids), reason, t, F) :
                S1 \in {shutdown_server(S, Head(ids), reason, t,
                                        Head(ids) \notin F)}} : TRUE

\* for session_id in ids: try: shutdown_server(session_id, reason)
\* except Exception: logger.error(...)
RECURSIVE shutdown_each_logged(_, _, _, _, _)
shutdown_each_logged(S, ids, reason, t, F) ==
    IF ids = <<>> THEN S
    ELSE CHOOSE R \in
            {shutdown_each_logged([S1 EXCEPT !.exc = ""], Tail(ids), reason, t, F) :
                S1 \in {shutdown_server(S, Head(ids), reason, t,
                                        Head(ids) \notin F)}} : TRUE

\* shutdown_server(session_id) is called with the default reason, "manual"
list_sessions(S, t, F) ==
    LET dead_sessions ==
            {s \in DOMAIN S.reg : S.proc[S.reg[s].process] # "running"}
        S1 == shutdown_each(S, keys(dead_sessions), "manual", t, F)
    IN  [S1 EXCEPT !.ret = DOMAIN S1.reg]

\* (mutant) >= in place of >
cleanup_idle_sessions_AtTimeout(S, current_time, F) ==
    LET idle_sessions ==
            {s \in DOMAIN S.reg :
                current_time - S.reg[s].last_activity >= IdleTimeout}
        S1 == shutdown_each(S, keys(idle_sessions), "idle_timeout", current_time, F)
    IN  [S1 EXCEPT !.ret = Cardinality(idle_sessions)]

cleanup_idle_sessions(S, current_time, F) ==
    LET idle_sessions ==
            {s \in DOMAIN S.reg :
                current_time - S.reg[s].last_activity > IdleTimeout}
        S1 == shutdown_each(S, keys(idle_sessions), "idle_timeout", current_time, F)
    IN  [S1 EXCEPT !.ret = Cardinality(idle_sessions)]

\* (mutant) the loop misses the first session
shutdown_all_sessions_SkipFirst(S, t, F) ==
    LET session_ids == keys(DOMAIN S.reg)
    IN  IF session_ids = <<>>
        THEN [S EXCEPT !.ret = 0]
        ELSE [shutdown_each(S, Tail(session_ids), "server_shutdown", t, F)
                EXCEPT !.ret = Len(session_ids)]

\* (mutant) no try/except around shutdown_server: the exception ends the loop
\* and leaves shutdown_all_sessions
shutdown_all_sessions_NoTry(S, t, F) ==
    LET session_ids == keys(DOMAIN S.reg)
    IN  IF session_ids = <<>>
        THEN [S EXCEPT !.ret = 0]
        ELSE [shutdown_each(S, session_ids, "server_shutdown", t, F)
                EXCEPT !.ret = Len(session_ids)]

shutdown_all_sessions(S, t, F) ==
    LET session_ids == keys(DOMAIN S.reg)
    IN  IF session_ids = <<>>
        THEN [S EXCEPT !.ret = 0]
        ELSE [shutdown_each_logged(S, session_ids, "server_shutdown", t, F)
                EXCEPT !.ret = Len(session_ids)]

update_session_user_info(S, session_id, current_time) ==
    IF session_id \in DOMAIN S.reg
    THEN [log_user_info_update(update_last_activity(S, session_id, current_time),
                               session_id, current_time) EXCEPT !.ret = TRUE]
    ELSE [S EXCEPT !.ret = FALSE]

(***************************************************************************)
(* api/command.py: /send. worker/proxy.py is not among the sources;        *)
(* send_command is what the specification says of the proxy.               *)
(***************************************************************************)

\* The reply of the worker, or the transport error the proxy makes of a
\* timeout or a failed send/receive.
send_command(outcome) ==
    [success |-> outcome = "Reply",
     error |-> IF outcome = "Reply" THEN "" ELSE outcome]

\* (mutant) the command is logged before the session is looked up
send_begin_LogFirst(S, session_id, command_name, current_time) ==
    LET S0 == log_command_execution(S, session_id, current_time, command_name)
    IN  IF session_id \notin DOMAIN S.reg
        THEN [S0 EXCEPT !.exc = "HTTPException"]
        ELSE [update_last_activity(S0, session_id, current_time)
                EXCEPT !.ret = S.reg[session_id].port]

\* send, up to the call of send_command: 404 for a session that is not in the
\* registry, else the activity update; returns the port
send_begin(S, session_id, command_name, current_time) ==
    IF session_id \notin DOMAIN S.reg
    THEN [S EXCEPT !.exc = "HTTPException"]
    ELSE [update_last_activity(S, session_id, current_time)
            EXCEPT !.ret = S.reg[session_id].port]

\* (mutant) a session whose RPC failed is ended
send_finish_EndOnError(S, rpc, response, current_time) ==
    LET S1 == log_command_execution(S, rpc.session_id, current_time,
                                    rpc.command_name)
        S2 == get_current_memory_usage(S1, rpc.session_id, current_time)
    IN  IF response.success THEN [S2 EXCEPT !.ret = response]
        ELSE [shutdown_server(S2, rpc.session_id, "dead_process", current_time,
                              rpc.session_id \notin S.fail)
                EXCEPT !.ret = response]

\* (mutant) the elapsed time is written as the timestamp
send_finish_Elapsed(S, rpc, response, current_time) ==
    LET S1 == log_command_execution(S, rpc.session_id,
                                    current_time - rpc.start_time,
                                    rpc.command_name)
        S2 == get_current_memory_usage(S1, rpc.session_id, current_time)
    IN  [S2 EXCEPT !.ret = response]

\* (mutant) memory is sampled only when the command was logged
send_finish_SampleIfLogged(S, rpc, response, current_time) ==
    LET S1 == log_command_execution(S, rpc.session_id, current_time,
                                    rpc.command_name)
        S2 == IF S1.log # S.log
              THEN get_current_memory_usage(S1, rpc.session_id, current_time)
              ELSE S1
    IN  [S2 EXCEPT !.ret = response]

\* send, after send_command returned response: the command row, the memory
\* sample, and the response as the answer
send_finish(S, rpc, response, current_time) ==
    LET S1 == log_command_execution(S, rpc.session_id, current_time,
                                    rpc.command_name)
        S2 == get_current_memory_usage(S1, rpc.session_id, current_time)
    IN  [S2 EXCEPT !.ret = response]

(***************************************************************************)
(* api/session.py and main.py: the handlers.                               *)
(***************************************************************************)

\* for session_id in sessions.keys(): get_current_memory_usage(session_id)
RECURSIVE sample_each(_, _, _)
sample_each(S, ids, t) ==
    IF ids = <<>> THEN S
    ELSE sample_each(get_current_memory_usage(S, Head(ids), t), Tail(ids), t)

\* What the handler that ran last was given and what it answered: sid and port
\* are the session and the port it was about, outcome what the environment
\* did, exc the exception that left the handler, status the HTTP status,
\* count and ids the returned number and session ids, ended the sessions
\* shutdown_server removed, failed the sessions whose store write failed, log
\* the statements it sent to the store, command the name of the command of a
\* /send, raised the sessions whose termination raised.
Answer(op, sid, port, outcome, W, status, count, ids, F) ==
    [op |-> op, sid |-> sid, port |-> port, outcome |-> outcome, exc |-> W.exc,
     status |-> status, count |-> count, ids |-> ids, ended |-> W.ended,
     failed |-> F, log |-> W.log, command |-> <<>>, raised |-> W.raises]

Event(op, sid) ==
    [op |-> op, sid |-> sid, port |-> 0, outcome |-> "", exc |-> "",
     status |-> 0, count |-> 0, ids |-> {}, ended |-> {}, failed |-> {},
     log |-> <<>>, command |-> <<>>, raised |-> {}]

\* The store after it was sent the statements of log: which of created and
\* destroyed each session's last one was, and whether destroyed came twice.
RECURSIVE Receive(_, _)
Receive(R, log) ==
    IF log = <<>> THEN R
    ELSE Receive(IF Head(log).kind = "created"
                 THEN [R EXCEPT ![Head(log).session_id] = "created"]
                 ELSE IF Head(log).kind = "destroyed"
                 THEN [R EXCEPT ![Head(log).session_id] =
                         IF @ \in {"destroyed", "destroyed_twice"}
                         THEN "destroyed_twice" ELSE "destroyed"]
                 ELSE R,
                 Tail(log))

Commit(W) ==
    /\ server_registry' = W.reg
    /\ available_ports' = W.avail
    /\ reserved_ports' = W.res
    /\ worker' = W.proc
    /\ sessions' = W.db
    /\ session_commands' = W.cmds
    /\ received' = Receive(received, W.log)
    /\ UNCHANGED <<config, kept, loop>>

\* Commit for /send
CommitSend(W) == Commit(W) /\ UNCHANGED <<lifespan, reaper, ending>>

\* Commit for the handlers that are not /send
CommitOther(W) == CommitSend(W) /\ UNCHANGED <<rpcs, queue>>

\* (mutant) the call is awaited, and the event loop runs other handlers
Blocked_Awaited == FALSE

\* A /send handler is inside send_command(port, command), a synchronous call
\* in a coroutine, or a handler is inside shutdown_server(), synchronous as
\* well: the event loop runs no other handler until the call returns.
Blocked == rpcs # {} \/ ending.pc # "none"

EndedIds(W) == {e[1] : e \in W.ended}

\* The sessions a handler ends do not depend on which store writes fail, so the
\* failing writes are drawn among the sessions it ends.
Failing(W) == SUBSET EndedIds(W)

\* The sessions a handler sends statements about
Written(W) == {W.log[i].session_id : i \in DOMAIN W.log}

\* No call of shutdown_server is followed statement by statement
NoEnding == [pc |-> "none", session_id |-> 0, reason |-> NoReason]

\* PhoebeWorker.run at socket.recv_json(), before its first request: served is
\* the requests it received, each with the envelopes it sent for it
Listening == [pc |-> "recv", served |-> <<>>]

\* load_port_config() at startup, on the empty module globals
Init ==
    /\ server_registry = <<>>
    /\ available_ports = [i \in 1..PoolSize |-> PortStart + i - 1]
    /\ reserved_ports = {}
    /\ worker = [s \in SessionIds |-> "none"]
    /\ sessions = <<>>
    /\ now = 0
    /\ next_uuid = 1
    /\ last = Event("init", 0)
    /\ session_commands = <<>>
    /\ received = [s \in SessionIds |-> "none"]
    /\ rpcs = {}
    /\ queue = {}
    /\ config = DefaultConfig
    /\ kept = {}
    /\ lifespan = "serving"
    /\ reaper = "sleeping"
    /\ ending = NoEnding
    /\ loop = Listening

\* In the actions below \E W \in {f(World, ...)} names the world the call
\* leaves behind (one evaluation of the call).

\* POST /start-session -> launch_phoebe_worker(); an exception that leaves the
\* handler is answered 500
StartSession ==
    /\ ~Blocked
    /\ available_ports = <<>> \/ next_uuid <= MaxSessions
    /\ \E outcome \in {"Ready", "NotReady", "SpawnError"}, ok \in BOOLEAN :
        /\ (outcome # "Ready" \/ available_ports = <<>>) => ok
        /\ available_ports = <<>> => outcome = "Ready"
        /\ \E W \in {launch_phoebe_worker(World, next_uuid, now, outcome, ok)} :
            /\ CommitOther(W)
            /\ next_uuid' = IF available_ports = <<>> THEN next_uuid
                            ELSE next_uuid + 1
            /\ last' = Answer("create", next_uuid,
                              IF available_ports = <<>> THEN 0
                              ELSE Head(available_ports),
                              IF available_ports = <<>> THEN "NoPorts" ELSE outcome,
                              W, IF W.exc = "" THEN 200 ELSE 500, 0, {},
                              IF ok THEN {} ELSE {next_uuid})
            /\ UNCHANGED now

\* POST /end-session/{session_id} -> shutdown_server(session_id), 404 on False
EndSession ==
    /\ ~Blocked
    /\ \E session_id \in SessionIds, ok \in BOOLEAN :
        /\ session_id \notin DOMAIN server_registry => ok
        /\ \E W \in {shutdown_server(World, session_id, "manual", now, ok)} :
            /\ CommitOther(W)
            /\ last' = Answer("end", session_id,
                              IF session_id \in DOMAIN server_registry
                              THEN server_registry[session_id].port ELSE 0,
                              "", W, IF W.ret THEN 200 ELSE 404, 0, {},
                              IF ok THEN {} ELSE {session_id})
            /\ UNCHANGED <<now, next_uuid>>

\* GET /sessions -> cleanup_idle_sessions(), then list_sessions()
ListSessions ==
    /\ ~Blocked
    /\ \E F \in Failing(list_sessions(cleanup_idle_sessions(World, now, {}), now, {})) :
        \E W \in {list_sessions(cleanup_idle_sessions(World, now, F), now, F)} :
            /\ CommitOther(W)
            /\ last' = Answer("sessions", 0, 0, "", W, 200, 0, W.ret, F)
            /\ UNCHANGED <<now, next_uuid>>

\* GET /session-memory -> list_sessions(), then a sample of each listed session
SessionMemoryAll ==
    /\ ~Blocked
    /\ \E F \in SUBSET DOMAIN server_registry :
        \E W1 \in {list_sessions(WorldF(F), now, F)} :
            \E W \in {sample_each(W1, keys(W1.ret), now)} :
                /\ F \subseteq Written(W)
                /\ CommitOther(W)
                /\ last' = Answer("memory_all", 0, 0, "", W, 200, 0, W1.ret, F)
                /\ UNCHANGED <<now, next_uuid>>

\* POST /session-memory/{session_id} -> get_current_memory_usage(), 404 on None
SessionMemory ==
    /\ ~Blocked
    /\ \E session_id \in SessionIds :
        \E F \in SUBSET Written(get_current_memory_usage(World, session_id, now)) :
        \E W \in {get_current_memory_usage(WorldF(F), session_id, now)} :
            /\ CommitOther(W)
            /\ last' = Answer("memory", session_id, 0, "", W,
                              IF W.ret THEN 200 ELSE 404, 0, {}, F)
            /\ UNCHANGED <<now, next_uuid>>

\* one tick of periodic_cleanup: count = cleanup_idle_sessions()
PeriodicCleanup ==
    /\ ~Blocked
    /\ reaper = "sleeping"
    /\ \E F \in Failing(cleanup_idle_sessions(World, now, {})) :
        \E W \in {cleanup_idle_sessions(World, now, F)} :
            /\ CommitOther(W)
            /\ last' = Answer("reap", 0, 0, "", W, 0, W.ret, {}, F)
            /\ UNCHANGED <<now, next_uuid>>

\* count = shutdown_all_sessions()
ShutdownAll ==
    /\ ~Blocked
    /\ \E F \in Failing(shutdown_all_sessions(World, now, {})) :
        \E W \in {shutdown_all_sessions(World, now, F)} :
            /\ CommitOther(W)
            /\ last' = Answer("shutdown_all", 0, 0, "", W, 0, W.ret, {}, F)
            /\ UNCHANGED <<now, next_uuid>>

\* the wall clock advances
Tick ==
    /\ now < MaxTime
    /\ now' = now + 1
    /\ last' = Event("clock", 0)
    /\ UNCHANGED <<server_registry, available_ports, reserved_ports, worker,
                   sessions, next_uuid, session_commands, received, rpcs, queue,
                   config, kept, lifespan, reaper, ending, loop>>

\* the wall clock advances, up to MaxSendTime
TickSend ==
    /\ now < MaxSendTime
    /\ Tick

\* the worker process of a session exits on its own (crash, external kill)
WorkerExits ==
    \E session_id \in DOMAIN server_registry :
        /\ worker[session_id] = "running"
        /\ worker' = [worker EXCEPT ![session_id] = "exited"]
        /\ last' = Event("worker_exit", session_id)
        /\ UNCHANGED <<server_registry, available_ports, reserved_ports,
                       sessions, now, next_uuid, session_commands, received,
                       rpcs, queue, config, kept, lifespan, reaper, ending, loop>>

\* POST /update-user-info/{session_id} -> update_session_user_info(), 404 on
\* False
UpdateUserInfo ==
    /\ ~Blocked
    /\ \E session_id \in SessionIds :
        \E F \in SUBSET ({session_id} \cap DOMAIN server_registry) :
        \E W \in {update_session_user_info(WorldF(F), session_id, now)} :
            /\ CommitOther(W)
            /\ last' = Answer("user_info", session_id, 0, "", W,
                              IF W.ret THEN 200 ELSE 404, 0, {}, F)
            /\ UNCHANGED <<now, next_uuid>>

\* A /send request: the session, the command, and whether the statements of
\* the session fail during the handler
Requests ==
    [session_id : SessionIds, command_name : CommandNames, failing : BOOLEAN]

\* A /send request is received while a handler blocks the event loop: its
\* handler is scheduled and does not run yet
Arrive ==
    /\ Blocked
    /\ queue = {}
    /\ \E req \in Requests :
        /\ req.failing = FALSE
        /\ queue' = {req}
    /\ last' = Event("arrive", 0)
    /\ UNCHANGED <<server_registry, available_ports, reserved_ports, worker,
                   sessions, now, next_uuid, session_commands, received, rpcs,
                   config, kept, lifespan, reaper, ending, loop>>

\* POST /send/{session_id}, up to the call of send_command(): the handler of a
\* request that waited, or of one that is received now
SendBegin ==
    /\ ~Blocked
    /\ Len(session_commands) < MaxCommands
    /\ \E req \in IF queue # {} THEN queue ELSE Requests :
        /\ (req.failing => req.session_id \in DOMAIN server_registry)
        /\ \E W \in {send_begin(WorldF(IF req.failing THEN {req.session_id} ELSE {}),
                                 req.session_id, req.command_name, now)} :
            /\ CommitSend(W)
            /\ queue' = {}
            /\ IF W.exc # ""
               THEN /\ rpcs' = rpcs
                    /\ last' = [Answer("send", req.session_id, 0, "Unknown", W,
                                       404, 0, {}, {})
                                  EXCEPT !.command = req.command_name]
               ELSE /\ rpcs' = rpcs \cup
                            {[session_id |-> req.session_id, port |-> W.ret,
                              command_name |-> req.command_name,
                              start_time |-> now]}
                    /\ last' = [Answer("send_rpc", req.session_id, W.ret, "", W,
                                       0, 0, {}, W.fail)
                                  EXCEPT !.command = req.command_name]
            /\ UNCHANGED <<now, next_uuid>>

\* send_command() returns: the worker's reply or error, or a transport error
\* (always possible: the call has a timeout), and the handler runs to its end,
\* with the store writes of the session failing or not
SendEnd ==
    \E rpc \in rpcs, outcome \in {"Reply", "EngineError", "Timeout"} :
        /\ outcome # "Timeout" => worker[rpc.session_id] = "running"
        /\ \E F \in SUBSET {rpc.session_id} :
            \E W \in {send_finish(WorldF(F), rpc, send_command(outcome), now)} :
                /\ CommitSend(W)
                /\ rpcs' = rpcs \ {rpc}
                /\ last' = [Answer("send", rpc.session_id, rpc.port, outcome, W,
                                   200, 0, {}, F)
                              EXCEPT !.command = rpc.command_name]
                /\ UNCHANGED <<now, next_uuid, queue>>

(***************************************************************************)
(* shutdown_server, statement by statement (POST /end-session).            *)
(***************************************************************************)

\* info = server_registry.get(session_id); if not info: return False (404)
EndLookup ==
    /\ ~Blocked
    /\ \E session_id \in SessionIds :
        IF session_id \in DOMAIN server_registry
        THEN /\ ending' = [pc |-> "terminate", session_id |-> session_id,
                           reason |-> "manual"]
             /\ last' = Event("ending", session_id)
             /\ UNCHANGED <<server_registry, available_ports, reserved_ports,
                            worker, sessions, session_commands, received>>
        ELSE \E W \in {shutdown_server(World, session_id, "manual", now, TRUE)} :
                /\ Commit(W)
                /\ ending' = ending
                /\ last' = Answer("end", session_id, 0, "", W, 404, 0, {}, {})
    /\ UNCHANGED <<now, next_uuid, rpcs, queue, config, kept, lifespan, reaper,
                   loop>>

\* if proc.is_running(): proc.terminate(); proc.wait(timeout=3); proc.kill()
EndTerminate ==
    /\ ending.pc = "terminate"
    /\ \E W \in {terminate(World, server_registry[ending.session_id].process)} :
        Commit(W)
    /\ ending' = [ending EXCEPT !.pc = "release"]
    /\ last' = Event("ending", ending.session_id)
    /\ UNCHANGED <<now, next_uuid, rpcs, queue, lifespan, reaper>>

\* if port: release_port(port)
EndRelease ==
    /\ ending.pc = "release"
    /\ \E W \in {IF server_registry[ending.session_id].port # 0
                 THEN release_port(World, server_registry[ending.session_id].port)
                 ELSE World} :
        Commit(W)
    /\ ending' = [ending EXCEPT !.pc = "log"]
    /\ last' = Event("ending", ending.session_id)
    /\ UNCHANGED <<now, next_uuid, rpcs, queue, lifespan, reaper>>

\* database.log_session_destroyed(session_id, time.time(), termination_reason)
EndLog ==
    /\ ending.pc = "log"
    /\ \E ok \in BOOLEAN :
        \E W \in {log_session_destroyed(World, ending.session_id, now,
                                        ending.reason, ok)} :
            /\ Commit(W)
            /\ last' = [Event("ending", ending.session_id)
                          EXCEPT !.log = W.log,
                                 !.failed = IF ok THEN {} ELSE {ending.session_id}]
    /\ ending' = [ending EXCEPT !.pc = "remove"]
    /\ UNCHANGED <<now, next_uuid, rpcs, queue, lifespan, reaper>>

\* del server_registry[session_id]; return True
EndRemove ==
    /\ ending.pc = "remove"
    /\ \E W \in {[World EXCEPT
                    !.reg = [k \in DOMAIN server_registry \ {ending.session_id}
                                |-> server_registry[k]],
                    !.ended = {<<ending.session_id, ending.reason,
                                 server_registry[ending.session_id].port>>},
                    !.ret = TRUE]} :
        /\ Commit(W)
        /\ last' = Answer("end", ending.session_id,
                          server_registry[ending.session_id].port, "", W, 200,
                          0, {}, {})
    /\ ending' = NoEnding
    /\ UNCHANGED <<now, next_uuid, rpcs, queue, lifespan, reaper>>

(***************************************************************************)
(* worker/phoebe_worker.py: the request loop of one worker.                *)
(***************************************************************************)

\* The requests a worker is followed through
MaxRequests == 3

\* What socket.recv_json() returns: shape is whether it is a dict with a
\* 'command' key whose value is a string ("named"), a dict without that key
\* ("no_command") or not a dict ("not_dict"); known is whether the name is in
\* self.commands; handler is what self.commands[command](**args) does: it
\* returns a result, it raises an Exception, or it returns a result that
\* send_json cannot serialize.
Messages ==
    [shape : {"named"}, known : {TRUE}, handler : {"returns", "raises", "unserializable"}]
    \cup [shape : {"named"}, known : {FALSE}, handler : {"returns"}]
    \cup [shape : {"no_command", "not_dict"}, known : {FALSE}, handler : {"returns"}]

\* The reply envelopes: {success: true, result}, {success: false, error} and
\* {success: false, error, traceback}
Success == [success |-> TRUE, traceback |-> FALSE]
Unrecognized == [success |-> FALSE, traceback |-> FALSE]
Failure == [success |-> FALSE, traceback |-> TRUE]

\* (mutant) no continue after the reply to an unknown command: the lookup
\* self.commands[command] raises inside the try, and a second reply is sent
run_NoContinue(args) ==
    CASE args.shape = "not_dict" -> [sent |-> <<>>, exc |-> "ValueError"]
      [] args.shape = "no_command" -> [sent |-> <<>>, exc |-> "KeyError"]
      [] ~args.known -> [sent |-> <<Unrecognized, Failure>>, exc |-> ""]
      [] args.handler = "returns" -> [sent |-> <<Success>>, exc |-> ""]
      [] OTHER -> [sent |-> <<Failure>>, exc |-> ""]

\* One turn of the while loop of PhoebeWorker.run on the request args: the
\* envelopes it sends and the exception that leaves the loop ("" when the loop
\* goes on). json serialization fails in send_json before anything is sent,
\* inside the try.
run(args) ==
    CASE args.shape = "not_dict" -> [sent |-> <<>>, exc |-> "ValueError"]
      [] args.shape = "no_command" -> [sent |-> <<>>, exc |-> "KeyError"]
      [] ~args.known -> [sent |-> <<Unrecognized>>, exc |-> ""]
      [] args.handler = "returns" -> [sent |-> <<Success>>, exc |-> ""]
      [] OTHER -> [sent |-> <<Failure>>, exc |-> ""]

\* The worker receives a request and runs one turn of its loop
WorkerServes ==
    /\ loop.pc = "recv"
    /\ Len(loop.served) < MaxRequests
    /\ \E args \in Messages :
        \E turn \in {run(args)} :
            loop' = [pc |-> IF turn.exc = "" THEN "recv" ELSE "exited",
                     served |-> Append(loop.served,
                                       [args |-> args, sent |-> turn.sent,
                                        exc |-> turn.exc])]
    /\ UNCHANGED <<server_registry, available_ports, reserved_ports, worker,
                   sessions, now, next_uuid, last, session_commands, received,
                   rpcs, queue, config, kept, lifespan, reaper, ending>>

\* The session handlers, the reaper and the shutdown. Activity reaches the
\* sessions through GET /session-memory, which samples all of them; the
\* request for one session, GET /session-memory/{id}, is followed in SpecSend.
Next ==
    \/ StartSession
    \/ EndSession
    \/ ListSessions
    \/ SessionMemoryAll
    \/ PeriodicCleanup
    \/ ShutdownAll
    \/ Tick
    \/ WorkerExits

Spec == Init /\ [][Next]_vars

\* The broker with /send and /update-user-info (and without GET
\* /session-memory and the shutdown, which add no statement of another kind).
\* The clock stops at MaxSendTime, before a session can be idle for longer
\* than IdleTimeout: sessions end here by end-session, and the reaper, which
\* would find none to end, is left to Spec. The workers stay alive: a /send to
\* a worker that has exited is followed in SpecLoop.
NextSend ==
    \/ StartSession
    \/ EndSession
    \/ ListSessions
    \/ SessionMemory
    \/ UpdateUserInfo
    \/ SendBegin
    \/ SendEnd
    \/ TickSend

SpecSend == Init /\ [][NextSend]_vars

\* The event loop: /send requests that are received while a /send waits for
\* its worker
NextLoop ==
    \/ StartSession
    \/ EndSession
    \/ Arrive
    \/ SendBegin
    \/ SendEnd
    \/ WorkerExits

SpecLoop == Init /\ [][NextLoop]_vars

\* Init, with the store followed in the columns and tables of cols and with
\* the command filter cfg
InitWith(cols, cfg) ==
    /\ server_registry = <<>>
    /\ available_ports = [i \in 1..PoolSize |-> PortStart + i - 1]
    /\ reserved_ports = {}
    /\ worker = [s \in SessionIds |-> "none"]
    /\ sessions = <<>>
    /\ now = 0
    /\ next_uuid = 1
    /\ last = Event("init", 0)
    /\ session_commands = <<>>
    /\ received = [s \in SessionIds |-> "none"]
    /\ rpcs = {}
    /\ queue = {}
    /\ config = cfg
    /\ kept = cols
    /\ lifespan = "serving"
    /\ reaper = "sleeping"
    /\ ending = NoEnding
    /\ loop = Listening

\* The rows of session_commands over time
InitCommands == InitWith({"session_commands"}, DefaultConfig)

NextCommands ==
    \/ StartSession
    \/ SendBegin
    \/ SendEnd
    \/ TickSend

SpecCommands == InitCommands /\ [][NextCommands]_vars

\* The rows of sessions with their created_at
InitRows == InitWith({"created_at"}, DefaultConfig)

NextRows ==
    \/ StartSession
    \/ EndSession
    \/ PeriodicCleanup
    \/ Tick

SpecRows == InitRows /\ [][NextRows]_vars

\* The command filter: the configured lists are drawn, and
\* log_command_execution is called once on the empty table
FilterNames == {<<"a">>, <<"b">>, <<"a", "a">>, <<" ", "a">>}

InitFilter ==
    \E include \in Strings, exclude \in Strings :
        InitWith({"session_commands"},
                 [log_include_commands |-> include,
                  log_exclude_commands |-> exclude])

LogCommand ==
    /\ session_commands = <<>>
    /\ \E session_id \in {next_uuid}, command_name \in FilterNames, ok \in BOOLEAN :
        \E W \in {log_command_execution(
                     WorldF(IF ok THEN {} ELSE {session_id}),
                     session_id, now, command_name)} :
            /\ CommitOther(W)
            /\ last' = [Answer("log_command", session_id, 0, "", W, 0, 0, {},
                               IF ok THEN {} ELSE {session_id})
                          EXCEPT !.command = command_name]
            /\ UNCHANGED <<now, next_uuid>>

NextFilter == LogCommand

SpecFilter == InitFilter /\ [][NextFilter]_vars

\* The broker with /send, and with /end-session followed statement by
\* statement
NextEnd ==
    \/ StartSession
    \/ EndLookup
    \/ EndTerminate
    \/ EndRelease
    \/ EndLog
    \/ EndRemove
    \/ SendBegin
    \/ SendEnd
    \/ TickSend
    \/ WorkerExits

SpecEnd == Init /\ [][NextEnd]_vars

\* One worker and the requests it receives
NextWorker == WorkerServes

SpecWorker == Init /\ [][NextWorker]_vars

(***************************************************************************)
(* Properties                                                              *)
(***************************************************************************)

Registered == DOMAIN server_registry
Available == Range(available_ports)
PortStatus == get_port_status(World)
Running(s) == worker[s] = "running"

\* C1: no two sessions in the registry have the same port, in every state
\* reachable by create, end, list, idle reap and shutdown_all.
C1_NoSharedPort ==
    \A s1 \in Registered : \A s2 \in Registered :
        s1 # s2 => server_registry[s1].port # server_registry[s2].port

C1_Witness == Cardinality(Registered) >= 2

\* C2: the port of every session in the registry is in the reserved set and
\* not in the available list.
C2_RegisteredPortReserved ==
    \A s \in Registered :
        /\ server_registry[s].port \in reserved_ports
        /\ server_registry[s].port \notin Available

\* a session is registered right after another one was ended
C2_Witness ==
    /\ last.op = "end" /\ last.status = 200
    /\ Registered # {}
    /\ Available # {}

\* C3: between handlers the pool is a partition of [start, end): every port of
\* the range is in exactly one of available and reserved, nothing else is in
\* either, the list holds no port twice, and total_ports = end - start.
C3_PoolPartition ==
    /\ \A p \in Ports : (p \in Available) # (p \in reserved_ports)
    /\ Available \cup reserved_ports \subseteq Ports
    /\ Len(available_ports) = Cardinality(Available)
    /\ PortStatus.total_ports = PortEnd - PortStart

\* a create has just failed (two calls of release_port) while a session holds
\* the other port
C3_Witness ==
    /\ last.op = "create" /\ last.outcome = "NotReady"
    /\ reserved_ports # {}
    /\ Available # {}

\* What C4 says of the registry, the pool and the process of every session s
\* for which shutdown_server(s, reason) has just returned True.
EndedCleanly(e) ==
    /\ e[1] \notin Registered
    /\ e[3] \in Available
    /\ ~Running(e[1])

RowTerminated(e) ==
    /\ e[1] \in DOMAIN sessions
    /\ sessions[e[1]].status = "terminated"
    /\ sessions[e[1]].destroyed_at # NoTime
    /\ sessions[e[1]].termination_reason = e[2]

\* C4 (as claimed): after end(s, reason) returns true, s is not in the
\* registry, its port is available, its worker is not running, and the store
\* row of s is terminated with a destroyed_at and the supplied reason.
C4_EndPostcondition ==
    \A e \in last.ended : EndedCleanly(e) /\ RowTerminated(e)

\* C4 (amended): the same, the store row being terminated with the supplied
\* reason whenever the row exists and the destroyed write did not fail.
C4_EndPostconditionStoreOk ==
    \A e \in last.ended :
        /\ EndedCleanly(e)
        /\ (e[1] \in DOMAIN sessions /\ e[1] \notin last.failed) => RowTerminated(e)

\* an end has returned true for a running session and its row is terminated
C4_Witness ==
    /\ last.op = "end" /\ last.status = 200
    /\ \E e \in last.ended : e[1] = last.sid /\ RowTerminated(e)
    /\ worker[last.sid] = "exited"

\* C5: when the worker cannot be spawned or does not become ready, the port is
\* back in available and not reserved, the session has no registry entry and
\* no row, its process is not running and the error reaches the caller.
C5_FailedCreateRollsBack ==
    (last.op = "create" /\ last.outcome \in {"NotReady", "SpawnError"}) =>
        /\ last.port \in Available
        /\ last.port \notin reserved_ports
        /\ last.sid \notin Registered
        /\ last.sid \notin DOMAIN sessions
        /\ ~Running(last.sid)
        /\ last.exc # ""
        /\ last.status = 500

\* the worker of a failed create was spawned and terminated, beside a live
\* session
C5_Witness ==
    /\ last.op = "create" /\ last.outcome = "NotReady"
    /\ worker[last.sid] = "exited"
    /\ Registered # {}

\* C6: a create with an empty available list fails with the capacity error
\* and changes neither the registry, the list, the reserved set nor any
\* process; port-status then reports 0 available and the whole pool reserved.
C6_NoCapacityNoChange ==
    [][(last'.op = "create" /\ available_ports = <<>>) =>
          /\ last'.exc = "RuntimeError"
          /\ last'.outcome = "NoPorts"
          /\ server_registry' = server_registry
          /\ available_ports' = available_ports
          /\ reserved_ports' = reserved_ports
          /\ worker' = worker
          /\ sessions' = sessions
          /\ PortStatus'.available_ports = 0
          /\ PortStatus'.reserved_ports = PortEnd - PortStart]_vars

C6_Witness ==
    /\ last.op = "create" /\ last.outcome = "NoPorts"
    /\ Cardinality(Registered) = PortEnd - PortStart
    /\ PortStatus.available_ports = 0

\* C7: end of a session id that is not in the registry returns false (404)
\* and changes neither the registry, the pool, the store nor any process.
C7_EndUnknownNoChange ==
    [][(last'.op = "end" /\ last'.sid \notin Registered) =>
          /\ last'.status = 404
          /\ last'.ended = {}
          /\ server_registry' = server_registry
          /\ available_ports' = available_ports
          /\ reserved_ports' = reserved_ports
          /\ sessions' = sessions
          /\ worker' = worker]_vars

\* the id is one that was ended before and has a row, and a session is live
C7_Witness ==
    /\ last.op = "end" /\ last.status = 404
    /\ last.sid \in DOMAIN sessions
    /\ Registered # {}

\* C8 (as claimed): when list_sessions runs (here at the start of
\* GET /session-memory), every registered session whose worker is not running
\* leaves the returned mapping and the registry, its port is available again,
\* and its row, when written, has termination_reason dead_process.
C8_ListEndsDeadProcess ==
    [][last'.op = "memory_all" =>
          \A s \in Registered :
              ~Running(s) =>
                  /\ s \notin last'.ids
                  /\ s \notin DOMAIN server_registry'
                  /\ server_registry[s].port \in Range(available_ports')
                  /\ (s \in DOMAIN sessions' /\ s \notin last'.failed) =>
                        sessions'[s].termination_reason = "dead_process"]_vars

\* C9: a reap ends exactly the sessions idle for more than the timeout, each
\* with reason idle_timeout, leaves every other entry as it was with its port
\* reserved, and returns the number of sessions it ended.
C9_ReapExactlyIdle ==
    [][last'.op = "reap" =>
          LET idle == {s \in Registered :
                          now - server_registry[s].last_activity > IdleTimeout}
          IN  /\ {e[1] : e \in last'.ended} = idle
              /\ \A e \in last'.ended : e[2] = "idle_timeout"
              /\ DOMAIN server_registry' = Registered \ idle
              /\ \A s \in Registered \ idle :
                    /\ server_registry'[s] = server_registry[s]
                    /\ server_registry[s].port \in reserved_ports'
              /\ last'.count = Cardinality(idle)]_vars

\* a reap has ended a session and kept another
C9_Witness ==
    /\ last.op = "reap" /\ last.count >= 1
    /\ Registered # {}

\* C10: shutdown_all ends every session of the registry with reason
\* server_shutdown and returns their number without raising; afterwards the
\* registry is empty and port-status reports 0 reserved ports.
C10_ShutdownAllEndsAll ==
    [][last'.op = "shutdown_all" =>
          /\ {e[1] : e \in last'.ended} = Registered
          /\ \A e \in last'.ended : e[2] = "server_shutdown"
          /\ last'.count = Cardinality(Registered)
          /\ last'.exc = ""
          /\ DOMAIN server_registry' = {}
          /\ PortStatus'.reserved_ports = 0]_vars

C10_Witness ==
    /\ last.op = "shutdown_all" /\ last.count >= 2
    /\ Registered = {}

(***************************************************************************)
(* Properties of /send and of the store                                    *)
(***************************************************************************)

\* The statements of a log that are of one of kinds
Stmts(log, kinds) == {i \in DOMAIN log : log[i].kind \in kinds}

\* The last of created/destroyed the store was sent for the session of
\* log[i], just before log[i]
PhaseBefore(log, i) ==
    Receive(received, SubSeq(log, 1, i - 1))[log[i].session_id]

\* C11: at most one RPC to a given worker is in flight at a time: a /send for
\* a session that is received while an RPC to its worker is in flight does not
\* send before that RPC has completed.
C11_OneRpcPerWorker ==
    \A r1 \in rpcs : \A r2 \in rpcs :
        (r1.session_id = r2.session_id \/ r1.port = r2.port) => r1 = r2

\* a /send for a session waits while an RPC to the worker of that session is
\* in flight
C11_Witness ==
    \E r \in rpcs : \E q \in queue : q.session_id = r.session_id

\* C12: per session, the store is sent created before any command, metric or
\* user_info statement, and no command, metric, activity or user_info
\* statement after destroyed, whatever the order of send, update-user-info,
\* memory sampling, end, reap and list.
C12_CreatedFirstDestroyedLast ==
    [][\A i \in DOMAIN last'.log :
          /\ last'.log[i].kind \in {"command", "metric", "user_info"} =>
                PhaseBefore(last'.log, i) = "created"
          /\ last'.log[i].kind = "activity" =>
                PhaseBefore(last'.log, i) \notin {"destroyed", "destroyed_twice"}]_vars

\* a /send has written its command and its metric for a session beside one
\* that was ended
C12_Witness ==
    /\ last.op = "send" /\ last.status = 200
    /\ Stmts(last.log, {"command"}) # {}
    /\ Stmts(last.log, {"metric"}) # {}
    /\ \E s \in SessionIds : received[s] = "destroyed"

\* The sessions that were created: the store was sent their created statement
Created == {s \in SessionIds : received[s] # "none"}

RowWellFormed(s) ==
    sessions[s].status = "terminated" =>
        /\ sessions[s].destroyed_at # NoTime
        /\ sessions[s].destroyed_at >= sessions[s].created_at

\* C13 (as claimed): every session ever created has exactly one row in
\* sessions, the row is marked destroyed at most once, and a terminated row
\* has a destroyed_at that is not NULL and not before created_at.
C13_OneRowPerCreated ==
    \A s \in Created :
        /\ s \in DOMAIN sessions
        /\ received[s] # "destroyed_twice"
        /\ RowWellFormed(s)

\* C13 (amended): the row exists when the created write did not fail, only
\* created sessions have rows, and the rest as claimed.
C13_OneRowPerCreatedStoreOk ==
    /\ DOMAIN sessions \subseteq Created
    /\ (last.op = "create" /\ last.outcome = "Ready" /\ last.failed = {}) =>
            /\ last.sid \in DOMAIN sessions
            /\ sessions[last.sid].created_at = now
            /\ sessions[last.sid].status = "active"
    /\ \A s \in Created :
            /\ received[s] # "destroyed_twice"
            /\ s \in DOMAIN sessions => RowWellFormed(s)

\* a row is terminated later than it was created, beside an active row
C13_Witness ==
    /\ \E s \in DOMAIN sessions :
            /\ sessions[s].status = "terminated"
            /\ sessions[s].destroyed_at > sessions[s].created_at
    /\ \E s \in DOMAIN sessions : sessions[s].status = "active"

\* The sessions that have left the registry
Left == {s \in Created : s \notin Registered}

\* C14 (as claimed): every session that has left the registry, by manual end,
\* idle reap, list self-heal or shutdown_all, has a sessions row with status
\* terminated and a termination reason.
C14_DestroyedRecorded ==
    \A s \in Left :
        /\ s \in DOMAIN sessions
        /\ sessions[s].status = "terminated"
        /\ sessions[s].termination_reason # NoReason

\* C14 (amended): a session leaves the registry only through shutdown_server;
\* its row, when it has one and the destroyed write does not fail, is then
\* terminated with the reason given, and a terminated row stays as it is.
C14_DestroyedRecordedStoreOk ==
    [][/\ Registered \ DOMAIN server_registry' \subseteq {e[1] : e \in last'.ended}
       /\ \A e \in last'.ended :
             (e[1] \in DOMAIN sessions /\ e[1] \notin last'.failed) =>
                 /\ sessions'[e[1]].status = "terminated"
                 /\ sessions'[e[1]].termination_reason = e[2]
                 /\ e[2] # NoReason
       /\ \A s \in DOMAIN sessions :
             sessions[s].status = "terminated" =>
                 (s \in DOMAIN sessions' /\ sessions'[s] = sessions[s])]_vars

\* the shutdown has ended a session beside one that the reaper had ended
C14_Witness ==
    /\ last.op = "shutdown_all" /\ last.ended # {}
    /\ \A e \in last.ended :
          /\ e[1] \in DOMAIN sessions
          /\ sessions[e[1]].termination_reason = "server_shutdown"
    /\ \E s \in Left \cap DOMAIN sessions :
          sessions[s].termination_reason = "idle_timeout"

\* What a handler leaves and answers: the registry, the pool, the processes,
\* the exception, the sessions it ended and the statements it sent (not
\* whether they succeeded)
Told(log) == [i \in DOMAIN log |-> [log[i] EXCEPT !.ok = TRUE]]

SameAs(W0) ==
    /\ server_registry' = W0.reg
    /\ available_ports' = W0.avail
    /\ reserved_ports' = W0.res
    /\ worker' = W0.proc
    /\ last'.exc = W0.exc
    /\ last'.ended = W0.ended
    /\ Told(last'.log) = Told(W0.log)

StatusOf(W0) == IF W0.ret THEN 200 ELSE 404

\* C15: a store write that fails (created, destroyed, activity, metric,
\* command, user_info) does not reach the caller: the handler answers what it
\* answers, and leaves the registry and the pool as it leaves them, when no
\* write fails.
C15_StoreFailureSwallowed ==
    [][last'.failed # {} =>
        CASE last'.op = "create" ->
                \E W0 \in {launch_phoebe_worker(World, next_uuid, now,
                                                 last'.outcome, TRUE)} :
                    SameAs(W0) /\ last'.status = 200
          [] last'.op = "end" ->
                \E W0 \in {shutdown_server(World, last'.sid, "manual", now, TRUE)} :
                    SameAs(W0) /\ last'.status = StatusOf(W0)
          [] last'.op = "sessions" ->
                \E W0 \in {list_sessions(cleanup_idle_sessions(World, now, {}),
                                          now, {})} :
                    SameAs(W0) /\ last'.ids = W0.ret
          [] last'.op = "reap" ->
                \E W0 \in {cleanup_idle_sessions(World, now, {})} :
                    SameAs(W0) /\ last'.count = W0.ret
          [] last'.op = "memory" ->
                \E W0 \in {get_current_memory_usage(World, last'.sid, now)} :
                    SameAs(W0) /\ last'.status = StatusOf(W0)
          [] last'.op = "user_info" ->
                \E W0 \in {update_session_user_info(World, last'.sid, now)} :
                    SameAs(W0) /\ last'.status = StatusOf(W0)
          [] last'.op = "send_rpc" ->
                \E W0 \in {send_begin(World, last'.sid, last'.command, now)} :
                    /\ SameAs(W0)
                    /\ last'.port = W0.ret
                    /\ \E r \in rpcs' : r.session_id = last'.sid
          [] last'.op = "send" ->
                /\ \E rpc \in rpcs \ rpcs' :
                      \E W0 \in {send_finish(World, rpc,
                                              send_command(last'.outcome), now)} :
                          /\ SameAs(W0)
                          /\ W0.ret = send_command(last'.outcome)
                /\ last'.status = 200
          [] OTHER -> FALSE]_vars

\* the activity, command and metric writes of a /send that took time have
\* failed
C15_Witness ==
    /\ last.op = "send" /\ last.failed # {}
    /\ Stmts(last.log, {"command"}) # {}
    /\ \A i \in DOMAIN last.log : ~last.log[i].ok
    /\ server_registry[last.sid].last_activity = now
    /\ now > 0

\* C16: a /send for a session id that is not in the registry is answered 404
\* before any side effect: no activity update, no RPC, no statement to the
\* store, nothing changed.
C16_SendUnknownNoEffect ==
    [][(last'.op \in {"send", "send_rpc"} /\ rpcs = {}
          /\ last'.sid \notin Registered) =>
          /\ last'.status = 404
          /\ last'.log = <<>>
          /\ rpcs' = {}
          /\ server_registry' = server_registry
          /\ available_ports' = available_ports
          /\ reserved_ports' = reserved_ports
          /\ worker' = worker
          /\ sessions' = sessions
          /\ session_commands' = session_commands]_vars

\* the id is that of a session that was ended, the command passes the filter,
\* and another session is live
C16_Witness ==
    /\ last.op = "send" /\ last.status = 404
    /\ received[last.sid] = "destroyed"
    /\ should_log_command(config, last.command)
    /\ Registered # {}

\* name is item, without the blanks around it
Trimmed(item, name) ==
    /\ name # <<>>
    /\ Head(name) # " " /\ name[Len(name)] # " "
    /\ \E a \in 1..Len(item) :
          /\ a + Len(name) - 1 <= Len(item)
          /\ SubSeq(item, a, a + Len(name) - 1) = name
          /\ \A k \in 1..Len(item) :
                (k < a \/ k > a + Len(name) - 1) => item[k] = " "

\* name is a member of the comma-separated list text
Member(name, text) ==
    \E i \in 1..(Len(text) + 1), j \in 0..Len(text) :
        /\ i <= j
        /\ i = 1 \/ text[i - 1] = ","
        /\ j = Len(text) \/ text[j + 1] = ","
        /\ \A k \in i..j : text[k] # ","
        /\ Trimmed(SubSeq(text, i, j), name)

\* the list text has a member
NonEmpty(text) == \E k \in 1..Len(text) : text[k] \notin {",", " "}

Passes(cfg, name) ==
    IF NonEmpty(cfg.log_include_commands)
    THEN Member(name, cfg.log_include_commands)
    ELSE ~Member(name, cfg.log_exclude_commands)

\* C17 (as claimed): a command adds exactly one row to session_commands when
\* its name passes the filter and none otherwise; the filter passes a name iff
\* it is a member of include when include is non-empty, and iff it is not a
\* member of exclude when include is empty.
C17_OneRowIffPasses ==
    last.op = "log_command" =>
        Len(session_commands) = IF Passes(config, last.command) THEN 1 ELSE 0

\* C17 (amended): the same, the one row being added when the name passes the
\* filter and the INSERT succeeds; the row is that of the command.
C17_OneRowIffPassesStoreOk ==
    last.op = "log_command" =>
        /\ should_log_command(config, last.command) = Passes(config, last.command)
        /\ Len(session_commands) =
              IF Passes(config, last.command) /\ last.failed = {} THEN 1 ELSE 0
        /\ Len(last.log) = IF Passes(config, last.command) THEN 1 ELSE 0
        /\ \A i \in DOMAIN session_commands :
              /\ session_commands[i].session_id = last.sid
              /\ session_commands[i].command_name = last.command

\* a name that both lists hold is logged: include takes precedence
C17_Witness ==
    /\ last.op = "log_command"
    /\ Member(last.command, config.log_include_commands)
    /\ Member(last.command, config.log_exclude_commands)
    /\ Head(config.log_include_commands) = " "
    /\ Len(session_commands) = 1

\* The metric statements of the last handler, and those that made a row
Metrics == Stmts(last.log, {"metric"})
MetricRows == {i \in Metrics : last.log[i].ok}

\* a /send that reached its end (no RPC is left of it) for a session whose
\* worker is alive
SentToLive ==
    /\ last.op = "send" /\ last.status = 200
    /\ worker[last.sid] = "running"

\* C18 (as claimed): each /send to a session whose worker is alive appends
\* exactly one row to session_metrics, whether or not the filter keeps the
\* command; creating a session and updating its user info append none.
C18_OneMetricPerSend ==
    /\ SentToLive => Cardinality(MetricRows) = 1
    /\ last.op \in {"create", "user_info"} => MetricRows = {}

\* C18 (amended): each /send to a session whose worker is alive sends exactly
\* one metric INSERT, for that session, whether or not the filter keeps the
\* command, and the row is appended when the INSERT succeeds; creating a
\* session, updating its user info and a /send answered 404 send none.
C18_OneMetricPerSendStoreOk ==
    /\ SentToLive =>
          /\ Cardinality(Metrics) = 1
          /\ \A i \in Metrics :
                /\ last.log[i].session_id = last.sid
                /\ last.log[i].ok = (last.sid \notin last.failed)
    /\ last.op \in {"create", "user_info", "send_rpc"} => Metrics = {}
    /\ (last.op = "send" /\ last.status = 404) => Metrics = {}

\* the filter dropped the command, and the sample made its row
C18_Witness ==
    /\ SentToLive
    /\ ~should_log_command(config, last.command)
    /\ Stmts(last.log, {"command"}) = {}
    /\ Cardinality(MetricRows) = 1

\* C19: a timeout or transport error of the RPC of a /send does not mark the
\* session dead: after the request the session is in the registry with its
\* entry (port, worker handle) as before, its port reserved, and no process
\* touched; a session leaves the registry only in a list, an end, a reap or
\* the shutdown.
C19_RpcErrorKeepsSession ==
    [][/\ (last'.op = "send" /\ last'.outcome = "Timeout") =>
             /\ last'.sid \in Registered
             /\ last'.sid \in DOMAIN server_registry'
             /\ server_registry'[last'.sid].port = server_registry[last'.sid].port
             /\ server_registry'[last'.sid].process =
                   server_registry[last'.sid].process
             /\ server_registry'[last'.sid].port \in reserved_ports'
             /\ DOMAIN server_registry' = Registered
             /\ reserved_ports' = reserved_ports
             /\ available_ports' = available_ports
             /\ worker' = worker
             /\ last'.ended = {}
             /\ last'.status = 200
       /\ Registered \ DOMAIN server_registry' # {} =>
             last'.op \in {"end", "sessions", "memory_all", "reap", "shutdown_all"}
      ]_vars

\* the RPC to a worker that has exited timed out, and the session is there
C19_Witness ==
    /\ last.op = "send" /\ last.outcome = "Timeout"
    /\ worker[last.sid] = "exited"
    /\ last.sid \in Registered
    /\ server_registry[last.sid].port \in reserved_ports

\* C20: the timestamps of the rows of one session in session_commands, in
\* insertion order, are non-decreasing.
C20_TimestampsNonDecreasing ==
    \A i, j \in DOMAIN session_commands :
        (i < j /\ session_commands[i].session_id = session_commands[j].session_id)
            => session_commands[i].timestamp <= session_commands[j].timestamp

\* two commands of one session were logged at different times, the second
\* after an RPC that took time
C20_Witness ==
    \E i, j \in DOMAIN session_commands :
        /\ i < j
        /\ session_commands[i].session_id = session_commands[j].session_id
        /\ session_commands[i].timestamp < session_commands[j].timestamp

\* C21: the port pool is a FIFO queue: at startup the ports are available in
\* ascending order from start; request_port returns the head of the available
\* list and reserves it; release_port of a reserved port puts it behind every
\* available port; release_port of a port that is not reserved changes neither
\* the list nor the reserved set.
C21_PoolIsFifo ==
    /\ last.op = "init" =>
          available_ports = [i \in 1..(PortEnd - PortStart) |-> PortStart + i - 1]
    /\ available_ports # <<>> =>
          \E W \in {request_port(World)} :
              /\ W.exc = ""
              /\ W.ret = available_ports[1]
              /\ W.avail = SubSeq(available_ports, 2, Len(available_ports))
              /\ W.res = reserved_ports \cup {available_ports[1]}
    /\ \A port \in Ports :
          \E W \in {release_port(World, port)} :
              IF port \in reserved_ports
              THEN /\ Len(W.avail) = Len(available_ports) + 1
                   /\ W.avail[Len(W.avail)] = port
                   /\ \A i \in 1..Len(available_ports) :
                         W.avail[i] = available_ports[i]
                   /\ W.res = reserved_ports \ {port}
              ELSE /\ W.avail = available_ports
                   /\ W.res = reserved_ports

\* the port an end released is the last of the list, behind a port with a
\* higher number that has been available longer and is the next to be handed
\* out
C21_Witness ==
    /\ last.op = "end" /\ last.status = 200
    /\ Len(available_ports) >= 2
    /\ available_ports[Len(available_ports)] = last.port
    /\ last.port < available_ports[1]
    /\ request_port(World).ret = available_ports[1]

\* C22: for every request that names a command, known or unknown, whether its
\* handler returns, raises or returns what cannot be serialized, the worker
\* sends exactly one envelope (success, or failure with an error) and is back
\* at recv for the next request: nothing is thrown out of the loop.
C22_OneReplyPerRequest ==
    \A i \in DOMAIN loop.served :
        loop.served[i].args.shape = "named" =>
            /\ Len(loop.served[i].sent) = 1
            /\ loop.served[i].sent[1].success =
                  (loop.served[i].args.known
                      /\ loop.served[i].args.handler = "returns")
            /\ loop.served[i].exc = ""
            /\ (i = Len(loop.served) => loop.pc = "recv")

\* the worker has answered an unknown command, a handler that raised and a
\* result that could not be serialized, and waits for the next request
C22_Witness ==
    /\ loop.pc = "recv"
    /\ Len(loop.served) = 3
    /\ ~loop.served[1].args.known /\ loop.served[1].sent = <<Unrecognized>>
    /\ loop.served[2].args.handler = "raises" /\ loop.served[2].sent = <<Failure>>
    /\ loop.served[3].args.handler = "unserializable"

\* The worker of session s has been told to terminate by the end under way
TerminationStarted(s) ==
    /\ ending.session_id = s
    /\ ending.pc \in {"release", "log", "remove"}

\* C23: on end, the registry entry of the session is removed before its worker
\* is terminated: once the termination has started, the session cannot be
\* resolved in the registry, and no RPC is dispatched to its worker.
C23_RemovedBeforeTerminated ==
    \A s \in SessionIds :
        TerminationStarted(s) =>
            /\ s \notin Registered
            /\ \A rpc \in rpcs : rpc.session_id # s

\* The part that holds: while shutdown_server runs, no /send is started or
\* under way, for any session.
C23_NoRouterDuringEnd ==
    [][ending.pc # "none" =>
          /\ rpcs = {} /\ rpcs' = {}
          /\ last'.op \notin {"send", "send_rpc"}]_vars

\* C24: a session is entered into the registry only by a create whose worker
\* answered the readiness ping with success; a create whose worker did not
\* answer, or could not be spawned, enters nothing and leaves no worker
\* running; and a command is routed only to the worker of a session that is in
\* the registry, so never to a worker that has not passed the probe.
C24_RegisteredAfterProbe ==
    [][/\ \A s \in DOMAIN server_registry' \ Registered :
             /\ last'.op = "create" /\ last'.sid = s
             /\ last'.outcome = "Ready" /\ last'.status = 200
             /\ worker'[s] = "running"
       /\ (last'.op = "create" /\ last'.outcome \in {"NotReady", "SpawnError"}) =>
             /\ server_registry' = server_registry
             /\ last'.status = 500
             /\ worker'[last'.sid] # "running"
       /\ \A rpc \in rpcs' \ rpcs :
             /\ rpc.session_id \in Registered
             /\ rpc.port = server_registry[rpc.session_id].port]_vars

\* a command is routed to a session that passed the probe, after the create
\* of another session failed at the probe and left its worker terminated
C24_Witness ==
    /\ last.op = "send_rpc"
    /\ \E rpc \in rpcs : rpc.session_id = last.sid
    /\ \E s \in SessionIds \ Registered :
          worker[s] = "exited" /\ received[s] = "none"

\* ---------------------------------------------------------------------------
\* The broker's lifecycle: the reaper task and the shutdown of the broker
\* ---------------------------------------------------------------------------

\* (mutant) an error in a reap ends the reaper task
periodic_cleanup_DiesOnError(pc, event) ==
    IF event \in {"CancelledError", "Exception"} THEN "done" ELSE "sleeping"

\* (mutant) the cancellation is logged like any other error and the loop goes on
periodic_cleanup_Swallows(pc, event) == "sleeping"

\* One turn of the reaper's loop: where the task is after event reached it.
\* A reap that returned its count and a reap that raised both go back to the
\* sleep; only the cancellation leaves the loop.
periodic_cleanup(pc, event) ==
    IF event = "CancelledError" THEN "done" ELSE "sleeping"

\* A tick of the reaper in which ending the sessions of R raises: the reap
\* stops at the first of them, the error is logged and the task sleeps again.
PeriodicCleanupRaises ==
    /\ ~Blocked
    /\ reaper = "sleeping"
    /\ \E R \in SUBSET Registered :
        \E W \in {cleanup_idle_sessions(WorldR(R), now, {})} :
            /\ W.exc # ""
            /\ Commit(W)
            /\ reaper' = periodic_cleanup(reaper, "Exception")
            /\ last' = Answer("reap", 0, 0, "", W, 0, 0, {}, {})
            /\ UNCHANGED <<now, next_uuid, rpcs, queue, lifespan, ending>>

\* The broker is asked to stop: cleanup_task.cancel() of lifespan.
LifespanCancel ==
    /\ ~Blocked
    /\ lifespan = "serving"
    /\ lifespan' = "cancelling"
    /\ reaper' = IF reaper = "sleeping" THEN "cancelled" ELSE reaper
    /\ last' = Event("cancel", 0)
    /\ UNCHANGED <<server_registry, available_ports, reserved_ports, worker,
                   sessions, now, next_uuid, session_commands, received, rpcs,
                   queue, config, kept, ending, loop>>

\* The cancellation reaches the reaper at its sleep.
ReaperCancelled ==
    /\ reaper = "cancelled"
    /\ reaper' = periodic_cleanup(reaper, "CancelledError")
    /\ last' = Event("cancelled", 0)
    /\ UNCHANGED <<server_registry, available_ports, reserved_ports, worker,
                   sessions, now, next_uuid, session_commands, received, rpcs,
                   queue, config, kept, lifespan, ending, loop>>

\* await cleanup_task has returned: lifespan ends every session.
LifespanShutdown ==
    /\ lifespan = "cancelling"
    /\ reaper = "done"
    /\ \E F \in Failing(shutdown_all_sessions(World, now, {})) :
        \E W \in {shutdown_all_sessions(World, now, F)} :
            /\ Commit(W)
            /\ lifespan' = "stopped"
            /\ last' = Answer("shutdown_all", 0, 0, "", W, 0, W.ret, {}, F)
            /\ UNCHANGED <<now, next_uuid, rpcs, queue, reaper, ending>>

\* shutdown_all_sessions while ending the sessions of R raises.
ShutdownAllRaises ==
    /\ ~Blocked
    /\ \E R \in SUBSET Registered \ {{}} :
        \E F \in Failing(shutdown_all_sessions(WorldR(R), now, {})) :
            \E W \in {shutdown_all_sessions(WorldR(R), now, F)} :
                /\ CommitOther(W)
                /\ last' = Answer("shutdown_all", 0, 0, "", W, 0, W.ret, {}, F)
                /\ UNCHANGED <<now, next_uuid>>

\* The handlers run while the broker serves.
Serving == lifespan = "serving"

\* The broker from start to stop, with sessions whose rows keep created_at.
NextLife ==
    \/ Serving /\ StartSession
    \/ Serving /\ EndSession
    \/ PeriodicCleanup
    \/ Tick
    \/ LifespanCancel
    \/ ReaperCancelled
    \/ LifespanShutdown

SpecLife == InitRows /\ [][NextLife]_vars

\* The broker with terminations that raise.
NextFault ==
    \/ StartSession
    \/ EndSession
    \/ ShutdownAllRaises
    \/ Tick
    \/ WorkerExits

SpecFault == Init /\ [][NextFault]_vars

\* The sessions that have been without activity for longer than the timeout
Overdue ==
    {s \in Registered : now - server_registry[s].last_activity > IdleTimeout}

\* The reaper with reaps that raise. Time passes, and a reap that raised is
\* followed by one that does not.
NextReap ==
    \/ StartSession
    \/ PeriodicCleanup
    \/ PeriodicCleanupRaises
    \/ Tick

SpecReap ==
    /\ Init
    /\ [][NextReap]_vars
    /\ WF_vars(Tick)
    /\ WF_vars(PeriodicCleanup)

C26_ReaperCancelledFirst ==
    [][/\ lifespan # "serving" => last'.op # "reap"
       /\ last'.op = "shutdown_all" =>
             /\ lifespan = "cancelling" /\ lifespan' = "stopped"
             /\ reaper = "done"
             /\ last'.ended = {<<s, "server_shutdown", server_registry[s].port>> :
                                  s \in Registered}
             /\ server_registry' = <<>>]_vars

\* shutdown_all ended, with reason server_shutdown, a session that had been
\* idle for longer than the timeout, after the reaper was cancelled
C26_Witness ==
    /\ last.op = "shutdown_all"
    /\ lifespan = "stopped"
    /\ reaper = "done"
    /\ \E e \in last.ended :
          /\ e[1] \in DOMAIN sessions
          /\ sessions[e[1]].termination_reason = "server_shutdown"
          /\ sessions[e[1]].destroyed_at - sessions[e[1]].created_at > IdleTimeout

\* C27: during shutdown_all an exception raised while ending one session does
\* not halt the shutdown: every other session that was in the registry when
\* shutdown_all was called is ended with reason server_shutdown, is out of
\* the registry and has its port released; no exception leaves shutdown_all
\* and it returns the number of sessions it was called with.
C27_ShutdownAllSurvivesErrors ==
    [][last'.op = "shutdown_all" =>
          /\ last'.exc = ""
          /\ last'.count = Cardinality(Registered)
          /\ \A s \in Registered \ last'.raised :
                /\ s \notin DOMAIN server_registry'
                /\ <<s, "server_shutdown", server_registry[s].port>> \in last'.ended
                /\ server_registry[s].port \notin reserved_ports'
                /\ server_registry[s].port \in Range(available_ports')
                /\ worker'[s] # "running"]_vars

\* ending the first session raised and a later session was ended all the same
C27_Witness ==
    /\ last.op = "shutdown_all"
    /\ \E r \in last.raised, e \in last.ended :
          /\ r < e[1]
          /\ r \in Registered
          /\ e[1] \notin Registered
          /\ e[3] \in Range(available_ports)

\* C28: no port leaks: between handlers every port in the reserved set is the
\* port of exactly one session in the registry (a create runs to its end
\* within its handler, so none is in progress between handlers), whatever
\* creates, succeeding or failing, ends, reaps, lists and shutdown_all came
\* before.
C28_NoPortLeak ==
    \A p \in reserved_ports :
        Cardinality({s \in Registered : server_registry[s].port = p}) = 1

\* a create failed while another session holds a port: the port of the failed
\* create is not reserved, the other one still is
C28_Witness ==
    /\ last.op = "create"
    /\ last.outcome \in {"NotReady", "SpawnError"}
    /\ last.port \notin reserved_ports
    /\ reserved_ports # {}

\* Ends that meet: /end-session followed through the steps of shutdown_server,
\* with a second /end-session, the reaper, the self-heal of /sessions and
\* shutdown_all as the other handlers of the event loop.
NextRace ==
    \/ StartSession
    \/ EndLookup
    \/ EndTerminate
    \/ EndRelease
    \/ EndLog
    \/ EndRemove
    \/ EndSession
    \/ ListSessions
    \/ PeriodicCleanup
    \/ ShutdownAll
    \/ Tick
    \/ WorkerExits

SpecRace == Init /\ [][NextRace]_vars

\* How often port is in the list
Count(list, port) == Cardinality({i \in 1..Len(list) : list[i] = port})

\* C29: two ends of the same session, whether two /end-session requests or
\* one of them the reaper, the self-heal of /sessions or shutdown_all, run one
\* after the other: while shutdown_server is at work for a session no other
\* handler runs. The first end reports success; an end of a session that is
\* not in the registry reports not-found without raising and changes
\* nothing; no session receives the destroyed update twice; and the port of a
\* session that was ended is released once: it is out of the reserved set and
\* once in the available list.
C29_EndsOneAfterTheOther ==
    [][/\ (ending.pc # "none"
           /\ last'.op \in {"create", "end", "sessions", "reap", "shutdown_all"}) =>
             /\ last'.op = "end"
             /\ last'.sid = ending.session_id
             /\ last'.status = 200
       /\ \A e \in last'.ended :
             /\ e[1] \in Registered /\ e[1] \notin DOMAIN server_registry'
             /\ e[3] \notin reserved_ports'
             /\ Count(available_ports', e[3]) = 1
       /\ (last'.op = "end" /\ ending'.pc = "none") =>
             IF last'.sid \in Registered
             THEN last'.status = 200 /\ last'.exc = ""
             ELSE /\ last'.status = 404 /\ last'.exc = ""
                  /\ last'.log = <<>> /\ last'.ended = {}
                  /\ UNCHANGED <<server_registry, available_ports,
                                 reserved_ports, received, sessions>>
       /\ \A s \in SessionIds : received'[s] # "destroyed_twice"]_vars

\* /end-session for a session that another end has ended before: not found,
\* and the store has its one destroyed update
C29_Witness ==
    /\ last.op = "end" /\ last.status = 404
    /\ received[last.sid] = "destroyed"
    /\ last.sid \notin Registered
    /\ Count(available_ports, PortStart) = 1

\* C30: a create that fails at the readiness probe releases its port after
\* the probe and once more in the exception handler; the second release
\* finds the port no longer reserved and does nothing, and no other create
\* runs in between: the port goes to the back of the available list once,
\* the reserved set and the registry are as before the create, so the failed
\* create gives back its own reservation and no other.
C30_FailedCreateReturnsOwnPort ==
    [][(last'.op = "create" /\ last'.outcome \in {"NotReady", "SpawnError"}) =>
          /\ last'.port = Head(available_ports)
          /\ last'.port \notin reserved_ports
          /\ available_ports' = Append(Tail(available_ports), last'.port)
          /\ Count(available_ports', last'.port) = 1
          /\ reserved_ports' = reserved_ports
          /\ server_registry' = server_registry
          /\ last'.exc # ""]_vars

\* a create failed at the probe while another session holds its port: the
\* worker is gone and the port is the last of the available list
C30_Witness ==
    /\ last.op = "create"
    /\ last.outcome = "NotReady"
    /\ last.exc = "RuntimeError"
    /\ worker[last.sid] = "exited"
    /\ available_ports # <<>>
    /\ available_ports[Len(available_ports)] = last.port
    /\ Registered # {}

(***************************************************************************)
(* session_manager.py: load_port_config run again.                         *)
(***************************************************************************)

\* cleanup_orphaned_workers() terminates worker processes whose parent is not
\* this server: the workers of the registered sessions are children of this
\* server and are left alone. Then available_ports is bound to a new list of
\* the whole range; reserved_ports and server_registry are not touched.
load_port_config(S) ==
    [S EXCEPT !.avail = [i \in 1..PoolSize |-> PortStart + i - 1]]

\* session_manager.load_port_config() called on the module as it is: by the
\* fixtures of the tests before they enter the application, and by lifespan
\* at each start of the application in the process
LoadPortConfig ==
    /\ ~Blocked
    /\ \E W \in {load_port_config(World)} :
        /\ CommitOther(W)
        /\ last' = Answer("load_port_config", 0, 0, "", W, 0, 0, {}, {})
        /\ UNCHANGED <<now, next_uuid>>

\* The broker whose pool is configured again while it holds sessions
NextReload ==
    \/ StartSession
    \/ EndSession
    \/ ListSessions
    \/ LoadPortConfig
    \/ WorkerExits

SpecReload == Init /\ [][NextReload]_vars

\* C31: when load_port_config has run again while sessions are in the
\* registry, the pool is still a partition: no port of a registered session
\* is in the available list, and total_ports of port-status is end - start.
C31_ReloadKeepsPartition ==
    (last.op = "load_port_config" /\ Registered # {}) =>
        /\ \A s \in Registered : server_registry[s].port \notin Available
        /\ PortStatus.total_ports = PortEnd - PortStart

(***************************************************************************)
(* api/command.py and worker/phoebe_worker.py: the body of a /send.        *)
(***************************************************************************)

\* What send() receives as command: dict. Any JSON mapping passes the
\* validation of the parameter, with or without a 'command' key; a body that
\* is not a mapping is refused before the handler runs.
Bodies == {args \in Messages : args.shape # "not_dict"}

\* command_name = command.get('command', 'unknown')
command_name(command, name) ==
    IF command.shape = "named" THEN name ELSE <<"unknown">>

\* What send_command() returns when the worker has run one turn of its loop
\* on the mapping it was forwarded: the envelope the worker sent, or the
\* transport error of the timeout when the worker sent none
Forwarded(turn) ==
    IF turn.sent = <<>> THEN "Timeout"
    ELSE IF turn.sent[1].success THEN "Reply"
    ELSE "EngineError"

\* The worker process after the turn: an exception that leaves run() leaves
\* main(), and the process exits
after_run(S, pid, turn) ==
    IF turn.exc = "" THEN S ELSE [S EXCEPT !.proc[pid] = "exited"]

\* POST /send/{session_id} to a session whose worker is alive, with the
\* worker's turn on the forwarded mapping: the whole handler
SendBody ==
    /\ ~Blocked
    /\ \E session_id \in DOMAIN server_registry, name \in CommandNames,
          command \in Bodies :
        /\ worker[server_registry[session_id].process] = "running"
        /\ \E turn \in {run(command)} :
            \E S1 \in {send_begin(World, session_id,
                                  command_name(command, name), now)} :
            \E W \in {send_finish(
                        after_run(S1, server_registry[session_id].process, turn),
                        [session_id |-> session_id, port |-> S1.ret,
                         command_name |-> command_name(command, name),
                         start_time |-> now],
                        send_command(Forwarded(turn)), now)} :
                /\ CommitOther(W)
                /\ last' = [Answer("send", session_id, S1.ret, Forwarded(turn),
                                   W, 200, 0, {}, {})
                              EXCEPT !.command = command_name(command, name)]
                /\ UNCHANGED <<now, next_uuid>>

\* The broker with /send followed into the worker
NextBody ==
    \/ StartSession
    \/ EndSession
    \/ ListSessions
    \/ SendBody
    \/ TickSend

SpecBody == Init /\ [][NextBody]_vars

\* C32: after a /send to a session whose worker is alive, whatever mapping
\* the body was (a known or an unknown command, or no 'command' key at all,
\* logged as 'unknown'), the worker is still running, so that it answers the
\* next request.
C32_WorkerSurvivesSend ==
    [][(last'.op = "send" /\ last'.status = 200
            /\ worker[last'.sid] = "running") =>
          worker'[last'.sid] = "running"]_vars

====
